---- MODULE Spec2Model ----
\* Broadcast dissemination node of flyio-gossip-glomers-challenge
\* (src/src/main.rs, src/src/db.rs): the Handler's request dispatch, the redb
\* backed store of seen broadcast values, the addressbook, and the forwards
\* the handlers hand to the transport.
EXTENDS Integers, Sequences, FiniteSets, TLC

\* ------------------------------------------------------------------ bounds

\* Broadcast values are 0..MaxVal (u64 in the source, compared for equality only).
MaxVal == 1
\* Requests injected by clients over a run.
MaxReq == 3
\* Handler tasks that may be in flight (suspended at an await) at once.
MaxTasks == 2
\* Forwarded broadcasts that may be in flight in the transport at once.
MaxNet == 3

Values == 0..MaxVal
\* Node identifiers the requests may name.
Ids == {"n1", "n2", "n3"}
\* Processes that run a Handler.
Procs == {"n1", "n2"}
Client == "c1"
Slots == 1..MaxTasks

VARIABLES
    nodeId,       \* [Procs -> STRING]: rt.node_id(), "" until the runtime has one
    db,           \* [Procs -> BOOLEAN]: Handler.db (OnceCell<Db>) is filled
    file,         \* [Procs -> table]: the redb file <node_id>.redb, table "broadcast"
    addressbook,  \* [Procs -> (node id -> set of peers)]: Handler.addressbook
    tasks,        \* [Slots -> task]: the process() futures suspended at an await
    net,          \* bag of forwarded broadcasts handed to the transport (call_async)
    last,         \* what the handler that returned most recently did with its envelope
    nreq,         \* client requests injected so far
    acked,        \* [Procs -> set of values]: values whose broadcast_ok has been sent
    backfilled,   \* [Procs -> set of values]: values of read_ok requests handled to the end
    inserted,     \* [Procs -> set of values]: values of committed inserts
    announced,    \* [Procs -> [Ids -> set]]: peers announced so far by topology requests
    carried,      \* values the requests of the network's clients have carried so far
    failed        \* some store operation of a network run has returned an error

vars == <<nodeId, db, file, addressbook, tasks, net, last, nreq,
          acked, backfilled, inserted, announced, carried, failed>>

\* ------------------------------------------------------------------ helpers

Range(s) == {s[i] : i \in DOMAIN s}

RECURSIVE SetToSeq(_)
\* The elements of a finite set of integers in ascending order (redb iterates a
\* table in key order).
SetToSeq(S) ==
    IF S = {} THEN <<>>
    ELSE LET m == CHOOSE x \in S : \A y \in S : x <= y
         IN <<m>> \o SetToSeq(S \ {m})

RECURSIVE IdsToSeq(_)
\* Some enumeration of a set of node ids (HashMap key order is unspecified; the
\* handlers' results do not depend on it).
IdsToSeq(S) ==
    IF S = {} THEN <<>>
    ELSE LET m == CHOOSE x \in S : TRUE
         IN <<m>> \o IdsToSeq(S \ {m})

\* ------------------------------------------------------------------ db.rs

\* The file before any write transaction: table "broadcast" does not exist.
NoTable == [exists |-> FALSE, keys |-> {}]

\* Mutant: the write replaces the table's content instead of adding to it.
set_broadcast_id_Overwrite(table, id) ==
    [exists |-> TRUE, keys |-> {id}]

\* Mutant: the write transaction is dropped without commit().
set_broadcast_id_NoCommit(table, id) ==
    table

\* Db::set_broadcast_id, the committed write transaction: open_table creates the
\* table when absent, insert(id, true) adds the key or overwrites its value.
set_broadcast_id(table, id) ==
    [exists |-> TRUE, keys |-> table.keys \cup {id}]

\* Mutant: the iteration starts one entry late.
seen_broadcast_values_SkipFirst(table) ==
    IF ~table.exists \/ table.keys = {} THEN <<>> ELSE Tail(SetToSeq(table.keys))

\* Db::seen_broadcast_values, the read transaction: an absent table gives the
\* empty vector, otherwise the keys are pushed in iteration order.
seen_broadcast_values(table) ==
    IF ~table.exists THEN <<>> ELSE SetToSeq(table.keys)

\* ------------------------------------------------------------------ main.rs

\* Mutant: the insert is unconditional, so a registered peer's set is reset.
add_known_peer_Reset(book, peer) ==
    [p \in DOMAIN book \cup {peer} |-> IF p = peer THEN {} ELSE book[p]]

\* add_known_peer: insert an empty peer set unless the peer has an entry.
add_known_peer(book, peer) ==
    IF peer \in DOMAIN book THEN book
    ELSE [p \in DOMAIN book \cup {peer} |->
            IF p = peer THEN {} ELSE book[p]]

RECURSIVE RegisterAll(_, _)
\* Request::Init: for node_id in node_ids { add_known_peer(..) }.
RegisterAll(book, node_ids) ==
    IF node_ids = <<>> THEN book
    ELSE RegisterAll(add_known_peer(book, Head(node_ids)), Tail(node_ids))

\* Mutant: the announced peers replace the entry instead of extending it.
MergeEntry_Replace(book, node, peers) ==
    [p \in DOMAIN book \cup {node} |-> IF p = node THEN Range(peers) ELSE book[p]]

\* addressbook.entry(node).or_default().extend(peers)
MergeEntry(book, node, peers) ==
    [p \in DOMAIN book \cup {node} |->
        IF p = node
        THEN (IF node \in DOMAIN book THEN book[node] ELSE {}) \cup Range(peers)
        ELSE book[p]]

RECURSIVE MergeTopology(_, _, _)
\* Request::Topology: for (node, peers) in topology { ..extend(peers) }, over the
\* entries `todo` of the map `topology`.
MergeTopology(book, topology, todo) ==
    IF todo = {} THEN book
    ELSE LET node == CHOOSE x \in todo : TRUE
         IN MergeTopology(MergeEntry(book, node, topology[node]), topology,
                          todo \ {node})

\* Mutant: the ids named as peers are collected beside the keys.
Neighbours_WithPeers(book) ==
    IdsToSeq(DOMAIN book \cup UNION {book[p] : p \in DOMAIN book})

\* let neighbours: Vec<String> = addressbook.keys().cloned().collect()
Neighbours(book) == IdsToSeq(DOMAIN book)

\* Mutant: the test of the loop is inverted, only rt.node_id() is called.
Fanout_OnlySelf(neighbours, self, sent) ==
    [d \in DOMAIN sent |->
        sent[d] + (IF d = self
                   THEN Cardinality({k \in DOMAIN neighbours : neighbours[k] = d})
                   ELSE 0)]

\* Mutant: the loop does not skip rt.node_id().
Fanout_ToSelfToo(neighbours, self, sent) ==
    [d \in DOMAIN sent |-> sent[d] + Cardinality({k \in DOMAIN neighbours : neighbours[k] = d})]

RECURSIVE Fanout(_, _, _)
\* for node in neighbours { if node == rt.node_id() { continue }; call_async(node, ..) }
\* gives the number of calls made to each node id, added to `sent`.
Fanout(neighbours, self, sent) ==
    IF neighbours = <<>> THEN sent
    ELSE LET node == Head(neighbours)
         IN IF node = self
            THEN Fanout(Tail(neighbours), self, sent)
            ELSE Fanout(Tail(neighbours), self,
                        [sent EXCEPT ![node] = @ + 1])

NoneSent == [d \in Ids |-> 0]

\* The forwards of one handler as transport messages.
Msgs == [src : Procs, dst : Ids, message : Values]
\* The number of messages in flight (no message is in flight more than MaxNet times).
NetSize == Cardinality({c \in Msgs \X (1..MaxNet) : c[2] <= net[c[1]]})

\* ------------------------------------------------------------------ tasks

\* A free slot; a running task has pc "init_db", "insert", "fanout", "list",
\* "reply" or "insert_each", the await it is suspended at.
Idle == [pc |-> "idle", node |-> "", kind |-> "", src |-> "", message |-> 0,
         messages |-> <<>>, rest |-> <<>>, values |-> <<>>]

Task(n, kind, src, pc) == [Idle EXCEPT !.pc = pc, !.node = n, !.kind = kind, !.src = src]

Free == {i \in Slots : tasks[i].pc = "idle"}
\* The slot a newly suspended handler takes.
NewSlot == CHOOSE i \in Free : \A j \in Free : i <= j

\* What a handler did with its envelope by the time process() returned: the
\* replies it sent (rt.reply), the generic completions (done), the error it
\* returned, and the calls it made (call_async) per destination.
NoOutcome == [node |-> "", kind |-> "", src |-> "", replies |-> 0, reply |-> "",
              body |-> <<>>, echo |-> "", dones |-> 0, err |-> "", sent |-> NoneSent]

Outcome(n, kind, src) == [NoOutcome EXCEPT !.node = n, !.kind = kind, !.src = src]

\* return rt.reply(req, resp).await
Reply(n, kind, src, typ) == [Outcome(n, kind, src) EXCEPT !.replies = 1, !.reply = typ]
\* done(rt, req)
Done(n, kind, src) == [Outcome(n, kind, src) EXCEPT !.dones = 1]
\* return Err(..) / the ? operator
Err(n, kind, src, e) == [Outcome(n, kind, src) EXCEPT !.err = e]

NotInitialized == "node is not initialized"
EmptyNodeId == "node id is empty"
StorageError == "storage error"

Init ==
    /\ nodeId = [n \in Procs |-> ""]
    /\ db = [n \in Procs |-> FALSE]
    /\ file = [n \in Procs |-> NoTable]
    /\ addressbook = [n \in Procs |-> <<>>]
    /\ tasks = [i \in Slots |-> Idle]
    /\ net = [m \in Msgs |-> 0]
    /\ last = NoOutcome
    /\ nreq = 0
    /\ acked = [n \in Procs |-> {}]
    /\ backfilled = [n \in Procs |-> {}]
    /\ inserted = [n \in Procs |-> {}]
    /\ announced = [n \in Procs |-> [p \in Ids |-> {}]]
    /\ carried = {}
    /\ failed = FALSE

\* ------------------------------------------------------------------ process(): the first poll of each request kind
\* Each operator below leaves nreq, net and the records carried and failed of
\* the network runs to its caller (a client request or a delivered forward).

\* Mutant: the members are registered before the node id is looked at.
ProcessInit_RegisterFirst(n, src, assigned, node_ids) ==
    LET id == IF assigned THEN n ELSE nodeId[n]
    IN /\ nodeId' = [nodeId EXCEPT ![n] = id]
       /\ addressbook' = [addressbook EXCEPT ![n] = RegisterAll(@, node_ids)]
       /\ IF id = ""
          THEN /\ last' = Err(n, "init", src, EmptyNodeId)
               /\ UNCHANGED tasks
          ELSE /\ Free # {}
               /\ tasks' = [tasks EXCEPT ![NewSlot] = Task(n, "init", src, "init_db")]
               /\ UNCHANGED last
       /\ UNCHANGED <<db, file, acked, backfilled, inserted, announced>>

\* Request::Init (main.rs 49-58): the runtime records the node id the init
\* message carries, when it carries one, before process() runs; an empty id
\* fails the request; otherwise every member is registered and the handler
\* goes on to init_db.
ProcessInit(n, src, assigned, node_ids) ==
    LET id == IF assigned THEN n ELSE nodeId[n]
    IN /\ nodeId' = [nodeId EXCEPT ![n] = id]
       /\ IF id = ""
          THEN /\ last' = Err(n, "init", src, EmptyNodeId)
               /\ UNCHANGED <<addressbook, tasks>>
          ELSE /\ Free # {}
               /\ addressbook' = [addressbook EXCEPT ![n] = RegisterAll(@, node_ids)]
               /\ tasks' = [tasks EXCEPT ![NewSlot] = Task(n, "init", src, "init_db")]
               /\ UNCHANGED last
       /\ UNCHANGED <<db, file, acked, backfilled, inserted, announced>>

\* Mutant: the handler does not return after its reply and reaches done() too.
ProcessEcho_FallsThrough(n, src, echo) ==
    /\ last' = [Reply(n, "echo", src, "echo_ok") EXCEPT !.echo = echo, !.dones = 1]
    /\ UNCHANGED <<nodeId, db, file, addressbook, tasks, acked, backfilled,
                   inserted, announced>>

\* Request::Echo (main.rs 63-66)
ProcessEcho(n, src, echo) ==
    /\ last' = [Reply(n, "echo", src, "echo_ok") EXCEPT !.echo = echo]
    /\ UNCHANGED <<nodeId, db, file, addressbook, tasks, acked, backfilled,
                   inserted, announced>>

\* Request::Generate (main.rs 69-74); the fresh Uuid of the reply is not modelled.
ProcessGenerate(n, src) ==
    /\ last' = Reply(n, "generate", src, "generate_ok")
    /\ UNCHANGED <<nodeId, db, file, addressbook, tasks, acked, backfilled,
                   inserted, announced>>

\* Mutant: the handler does not fail on an empty cell.
ProcessBroadcast_Unchecked(n, src, message) ==
    /\ Free # {}
    /\ tasks' = [tasks EXCEPT ![NewSlot] =
                    [Task(n, "broadcast", src, "insert") EXCEPT !.message = message]]
    /\ UNCHANGED last
    /\ UNCHANGED <<nodeId, db, file, addressbook, acked, backfilled, inserted,
                   announced>>

\* Request::Broadcast (main.rs 77-82): db.get() or the not-initialized error,
\* then the handler awaits set_broadcast_id.
ProcessBroadcast(n, src, message) ==
    /\ IF ~db[n]
       THEN /\ last' = Err(n, "broadcast", src, NotInitialized)
            /\ UNCHANGED tasks
       ELSE /\ Free # {}
            /\ tasks' = [tasks EXCEPT ![NewSlot] =
                            [Task(n, "broadcast", src, "insert") EXCEPT !.message = message]]
            /\ UNCHANGED last
    /\ UNCHANGED <<nodeId, db, file, addressbook, acked, backfilled, inserted,
                   announced>>

\* Request::BroadcastOk (main.rs 102, 146)
ProcessBroadcastOk(n, src) ==
    /\ last' = Done(n, "broadcast_ok", src)
    /\ UNCHANGED <<nodeId, db, file, addressbook, tasks, acked, backfilled,
                   inserted, announced>>

\* Request::Read (main.rs 104-110): db.get() or the not-initialized error, then
\* the handler awaits seen_broadcast_values.
ProcessRead(n, src) ==
    /\ IF ~db[n]
       THEN /\ last' = Err(n, "read", src, NotInitialized)
            /\ UNCHANGED tasks
       ELSE /\ Free # {}
            /\ tasks' = [tasks EXCEPT ![NewSlot] = Task(n, "read", src, "list")]
            /\ UNCHANGED last
    /\ UNCHANGED <<nodeId, db, file, addressbook, acked, backfilled, inserted,
                   announced>>

\* Mutant: the loop does not fail on an empty cell.
ProcessReadOk_Unchecked(n, src, messages) ==
    /\ IF messages = <<>>
       THEN /\ last' = Done(n, "read_ok", src)
            /\ UNCHANGED tasks
       ELSE /\ Free # {}
            /\ tasks' = [tasks EXCEPT ![NewSlot] =
                            [Task(n, "read_ok", src, "insert_each")
                                EXCEPT !.messages = messages, !.rest = messages]]
            /\ UNCHANGED last
    /\ UNCHANGED <<nodeId, db, file, addressbook, acked, backfilled, inserted,
                   announced>>

\* Request::ReadOk (main.rs 117-125, 146): the loop body runs db.get() once per
\* message, so an empty list reaches done() whether or not the store is attached.
ProcessReadOk(n, src, messages) ==
    /\ IF messages = <<>>
       THEN /\ last' = Done(n, "read_ok", src)
            /\ UNCHANGED tasks
       ELSE IF ~db[n]
       THEN /\ last' = Err(n, "read_ok", src, NotInitialized)
            /\ UNCHANGED tasks
       ELSE /\ Free # {}
            /\ tasks' = [tasks EXCEPT ![NewSlot] =
                            [Task(n, "read_ok", src, "insert_each")
                                EXCEPT !.messages = messages, !.rest = messages]]
            /\ UNCHANGED last
    /\ UNCHANGED <<nodeId, db, file, addressbook, acked, backfilled, inserted,
                   announced>>

\* Request::Topology (main.rs 127-138): every entry merged under one lock, then
\* topology_ok.
ProcessTopology(n, src, topology) ==
    /\ addressbook' = [addressbook EXCEPT ![n] =
                          MergeTopology(@, topology, DOMAIN topology)]
    /\ announced' = [announced EXCEPT ![n] =
                        [p \in Ids |-> IF p \in DOMAIN topology
                                       THEN @[p] \cup Range(topology[p]) ELSE @[p]]]
    /\ last' = Reply(n, "topology", src, "topology_ok")
    /\ UNCHANGED <<nodeId, db, file, tasks, acked, backfilled, inserted>>

\* A body that matches no Request variant (main.rs 140-146)
ProcessUnrecognized(n, src) ==
    /\ last' = Done(n, "unrecognized", src)
    /\ UNCHANGED <<nodeId, db, file, addressbook, tasks, acked, backfilled,
                   inserted, announced>>

\* ------------------------------------------------------------------ process(): the steps after an await

Finish(i) == [tasks EXCEPT ![i] = Idle]

\* Mutant: Db::new writes an empty table into the file it creates or opens.
InitDb_Truncate(i, ok) ==
    LET t == tasks[i]
    IN /\ t.pc = "init_db"
       /\ IF db[t.node]
          THEN /\ last' = Done(t.node, t.kind, t.src)
               /\ UNCHANGED <<db, file>>
          ELSE IF ok
          THEN /\ db' = [db EXCEPT ![t.node] = TRUE]
               /\ file' = [file EXCEPT ![t.node] = [exists |-> TRUE, keys |-> {}]]
               /\ last' = Done(t.node, t.kind, t.src)
          ELSE /\ last' = Err(t.node, t.kind, t.src, StorageError)
               /\ UNCHANGED <<db, file>>
       /\ tasks' = Finish(i)
       /\ UNCHANGED <<nodeId, addressbook, net, nreq, acked, backfilled,
                      inserted, announced>>

\* Mutant: every init runs Db::new and puts its result in the cell.
InitDb_Reinit(i, ok) ==
    LET t == tasks[i]
    IN /\ t.pc = "init_db"
       /\ db' = [db EXCEPT ![t.node] = ok]
       /\ last' = IF ok THEN Done(t.node, t.kind, t.src)
                  ELSE Err(t.node, t.kind, t.src, StorageError)
       /\ tasks' = Finish(i)
       /\ UNCHANGED <<nodeId, file, addressbook, net, nreq, acked, backfilled,
                      inserted, announced>>

\* init_db (main.rs 28-33, 60, 146; db.rs 11-14): get_or_try_init keeps a filled
\* cell as it is; it runs Db::new on an empty one, and fills the cell when that
\* succeeded (`ok`). Database::create makes or opens the file and writes no table.
InitDb(i, ok) ==
    LET t == tasks[i]
    IN /\ t.pc = "init_db"
       /\ IF db[t.node] \/ ok
          THEN /\ db' = [db EXCEPT ![t.node] = TRUE]
               /\ last' = Done(t.node, t.kind, t.src)
          ELSE /\ last' = Err(t.node, t.kind, t.src, StorageError)
               /\ UNCHANGED db
       /\ tasks' = Finish(i)
       /\ UNCHANGED <<nodeId, file, addressbook, net, nreq, acked, backfilled,
                      inserted, announced>>

\* Mutant: a value already in the store is acknowledged without being forwarded.
BroadcastInsert_SkipSeen(i, ok) ==
    LET t == tasks[i]
    IN /\ t.pc = "insert"
       /\ IF ok /\ t.message \in file[t.node].keys
          THEN /\ last' = Reply(t.node, t.kind, t.src, "broadcast_ok")
               /\ tasks' = Finish(i)
               /\ UNCHANGED <<file, inserted>>
          ELSE IF ok
          THEN /\ file' = [file EXCEPT ![t.node] = set_broadcast_id(@, t.message)]
               /\ inserted' = [inserted EXCEPT ![t.node] = @ \cup {t.message}]
               /\ tasks' = [tasks EXCEPT ![i].pc = "fanout"]
               /\ UNCHANGED last
          ELSE /\ last' = Err(t.node, t.kind, t.src, StorageError)
               /\ tasks' = Finish(i)
               /\ UNCHANGED <<file, inserted>>
       /\ UNCHANGED <<nodeId, db, addressbook, net, nreq, acked, backfilled,
                      announced>>

\* Mutant: the result of the insert is ignored.
BroadcastInsert_IgnoreError(i, ok) ==
    LET t == tasks[i]
    IN /\ t.pc = "insert"
       /\ IF ok
          THEN /\ file' = [file EXCEPT ![t.node] = set_broadcast_id(@, t.message)]
               /\ inserted' = [inserted EXCEPT ![t.node] = @ \cup {t.message}]
          ELSE UNCHANGED <<file, inserted>>
       /\ tasks' = [tasks EXCEPT ![i].pc = "fanout"]
       /\ UNCHANGED last
       /\ UNCHANGED <<nodeId, db, addressbook, net, nreq, acked, backfilled,
                      announced>>

\* set_broadcast_id(message).await? of Request::Broadcast (main.rs 78-82, db.rs
\* 16-31): the write transaction commits (`ok`) or the handler returns its error.
BroadcastInsert(i, ok) ==
    LET t == tasks[i]
    IN /\ t.pc = "insert"
       /\ IF ok
          THEN /\ file' = [file EXCEPT ![t.node] = set_broadcast_id(@, t.message)]
               /\ inserted' = [inserted EXCEPT ![t.node] = @ \cup {t.message}]
               /\ tasks' = [tasks EXCEPT ![i].pc = "fanout"]
               /\ UNCHANGED last
          ELSE /\ last' = Err(t.node, t.kind, t.src, StorageError)
               /\ tasks' = Finish(i)
               /\ UNCHANGED <<file, inserted>>
       /\ UNCHANGED <<nodeId, db, addressbook, net, nreq, acked, backfilled,
                      announced>>

\* Mutant: the forwards carry the next value instead of the handler's.
Forwarded_Altered(n, message, sent) ==
    [m \in Msgs |-> net[m] + (IF m.src = n /\ m.message = (message + 1) % (MaxVal + 1)
                              THEN sent[m.dst] ELSE 0)]

\* The calls of one handler at node n, handed to the transport.
Forwarded(n, message, sent) ==
    [m \in Msgs |-> net[m] + (IF m.src = n /\ m.message = message
                              THEN sent[m.dst] ELSE 0)]

RECURSIVE Total(_, _)
Total(sent, S) ==
    IF S = {} THEN 0
    ELSE LET d == CHOOSE x \in S : TRUE IN sent[d] + Total(sent, S \ {d})

\* The rest of Request::Broadcast (main.rs 84-99): the keys of the addressbook,
\* a call to each but rt.node_id(), then broadcast_ok.
BroadcastFanout(i) ==
    LET t == tasks[i]
        sent == Fanout(Neighbours(addressbook[t.node]), nodeId[t.node], NoneSent)
    IN /\ t.pc = "fanout"
       /\ NetSize + Total(sent, Ids) <= MaxNet
       /\ net' = Forwarded(t.node, t.message, sent)
       /\ last' = [Reply(t.node, t.kind, t.src, "broadcast_ok") EXCEPT !.sent = sent]
       /\ acked' = [acked EXCEPT ![t.node] = @ \cup {t.message}]
       /\ tasks' = Finish(i)
       /\ UNCHANGED <<nodeId, db, file, addressbook, nreq, backfilled, inserted,
                      announced>>

\* seen_broadcast_values().await? of Request::Read (main.rs 105-110, db.rs 33-60):
\* the read transaction returns the values (`ok`) or the handler returns its error.
ReadList(i, ok) ==
    LET t == tasks[i]
    IN /\ t.pc = "list"
       /\ IF ok
          THEN /\ tasks' = [tasks EXCEPT ![i].pc = "reply",
                                         ![i].values = seen_broadcast_values(file[t.node])]
               /\ UNCHANGED last
          ELSE /\ last' = Err(t.node, t.kind, t.src, StorageError)
               /\ tasks' = Finish(i)
       /\ UNCHANGED <<nodeId, db, file, addressbook, net, nreq, acked, backfilled,
                      inserted, announced>>

\* The rest of Request::Read (main.rs 112-114): read_ok with the values.
ReadReply(i) ==
    LET t == tasks[i]
    IN /\ t.pc = "reply"
       /\ last' = [Reply(t.node, t.kind, t.src, "read_ok") EXCEPT !.body = t.values]
       /\ tasks' = Finish(i)
       /\ UNCHANGED <<nodeId, db, file, addressbook, net, nreq, acked, backfilled,
                      inserted, announced>>

\* Mutant: the loop ends after the first message.
ReadOkInsert_FirstOnly(i, ok) ==
    LET t == tasks[i]
    IN /\ t.pc = "insert_each"
       /\ IF ok
          THEN /\ file' = [file EXCEPT ![t.node] = set_broadcast_id(@, Head(t.rest))]
               /\ inserted' = [inserted EXCEPT ![t.node] = @ \cup {Head(t.rest)}]
               /\ last' = Done(t.node, t.kind, t.src)
               /\ backfilled' = [backfilled EXCEPT ![t.node] = @ \cup Range(t.messages)]
               /\ tasks' = Finish(i)
          ELSE /\ last' = Err(t.node, t.kind, t.src, StorageError)
               /\ tasks' = Finish(i)
               /\ UNCHANGED <<file, inserted, backfilled>>
       /\ UNCHANGED <<nodeId, db, addressbook, net, nreq, acked, announced>>

\* One turn of the loop of Request::ReadOk (main.rs 118-124, 146): the insert of
\* the next message commits (`ok`) or the handler returns its error; after the
\* last message the handler reaches done().
ReadOkInsert(i, ok) ==
    LET t == tasks[i]
    IN /\ t.pc = "insert_each"
       /\ IF ok
          THEN /\ file' = [file EXCEPT ![t.node] = set_broadcast_id(@, Head(t.rest))]
               /\ inserted' = [inserted EXCEPT ![t.node] = @ \cup {Head(t.rest)}]
               /\ IF Tail(t.rest) = <<>>
                  THEN /\ last' = Done(t.node, t.kind, t.src)
                       /\ backfilled' = [backfilled EXCEPT ![t.node] =
                                            @ \cup Range(t.messages)]
                       /\ tasks' = Finish(i)
                  ELSE /\ tasks' = [tasks EXCEPT ![i].rest = Tail(t.rest)]
                       /\ UNCHANGED <<last, backfilled>>
          ELSE /\ last' = Err(t.node, t.kind, t.src, StorageError)
               /\ tasks' = Finish(i)
               /\ UNCHANGED <<file, inserted, backfilled>>
       /\ UNCHANGED <<nodeId, db, addressbook, net, nreq, acked, announced>>

\* ------------------------------------------------------------------ requests

\* The init bodies, echo payloads, read_ok lists and topology maps the clients send.
InitInputs == {<<>>, <<"n1", "n2", "n3">>}
EchoInputs == {"hi"}
ReadOkInputs == {<<>>} \cup {<<v>> : v \in Values} \cup {<<0, MaxVal>>, <<MaxVal, MaxVal>>}
TopologyInputs ==
    { [p \in {"n1"} |-> <<"n2">>],
      [p \in {"n1"} |-> <<"n3">>],
      [p \in {"n1", "n2"} |-> IF p = "n1" THEN <<"n2">> ELSE <<"n1", "n3">>] }

\* The process the clients of Spec talk to.
Served == {"n1"}

Admit == /\ nreq < MaxReq
         /\ nreq' = nreq + 1
         /\ UNCHANGED <<net, carried, failed>>

ClientInit ==
    \E n \in Served, assigned \in BOOLEAN, node_ids \in InitInputs :
        Admit /\ ProcessInit(n, Client, assigned, node_ids)
ClientEcho ==
    \E n \in Served, echo \in EchoInputs : Admit /\ ProcessEcho(n, Client, echo)
ClientGenerate ==
    \E n \in Served : Admit /\ ProcessGenerate(n, Client)
ClientBroadcast ==
    \E n \in Served, message \in Values : Admit /\ ProcessBroadcast(n, Client, message)
ClientBroadcastOk ==
    \E n \in Served : Admit /\ ProcessBroadcastOk(n, Client)
ClientRead ==
    \E n \in Served : Admit /\ ProcessRead(n, Client)
ClientReadOk ==
    \E n \in Served, messages \in ReadOkInputs : Admit /\ ProcessReadOk(n, Client, messages)
ClientTopology ==
    \E n \in Served, topology \in TopologyInputs : Admit /\ ProcessTopology(n, Client, topology)
ClientUnrecognized ==
    \E n \in Served : Admit /\ ProcessUnrecognized(n, Client)

\* The transport takes a forwarded broadcast off this process's hands; whether
\* the peer ever sees it is outside Spec.
Transmit ==
    \E m \in Msgs :
        /\ net[m] > 0
        /\ net' = [net EXCEPT ![m] = @ - 1]
        /\ UNCHANGED <<nodeId, db, file, addressbook, tasks, last, nreq, acked,
                       backfilled, inserted, announced, carried, failed>>

\* The steps of Spec; the records of the network runs stay as they are.
Unrecorded == UNCHANGED <<carried, failed>>
StepInitDb == \E i \in Slots, ok \in BOOLEAN : InitDb(i, ok) /\ Unrecorded
StepBroadcastInsert == \E i \in Slots, ok \in BOOLEAN : BroadcastInsert(i, ok) /\ Unrecorded
StepBroadcastFanout == \E i \in Slots : BroadcastFanout(i) /\ Unrecorded
StepReadList == \E i \in Slots, ok \in BOOLEAN : ReadList(i, ok) /\ Unrecorded
StepReadReply == \E i \in Slots : ReadReply(i) /\ Unrecorded
StepReadOkInsert == \E i \in Slots, ok \in BOOLEAN : ReadOkInsert(i, ok) /\ Unrecorded

Resume ==
    \/ StepInitDb
    \/ StepBroadcastInsert
    \/ StepBroadcastFanout
    \/ StepReadList
    \/ StepReadReply
    \/ StepReadOkInsert

Next ==
    \/ ClientInit
    \/ ClientEcho
    \/ ClientGenerate
    \/ ClientBroadcast
    \/ ClientBroadcastOk
    \/ ClientRead
    \/ ClientReadOk
    \/ ClientTopology
    \/ ClientUnrecognized
    \/ Resume
    \/ Transmit

Spec == Init /\ [][Next]_vars

\* The scheduler polls every suspended handler again (the blocking store
\* operation it awaits ends), and the transport takes every message handed to it.
SlotStep(i) ==
    /\ \/ \E ok \in BOOLEAN : InitDb(i, ok)
       \/ \E ok \in BOOLEAN : BroadcastInsert(i, ok)
       \/ BroadcastFanout(i)
       \/ \E ok \in BOOLEAN : ReadList(i, ok)
       \/ ReadReply(i)
       \/ \E ok \in BOOLEAN : ReadOkInsert(i, ok)
    /\ Unrecorded

FairSpec ==
    /\ Spec
    /\ \A i \in Slots : WF_vars(SlotStep(i))
    /\ WF_vars(Transmit)

\* ------------------------------------------------------------------ the network of processes

\* The member list the init of every process carries.
Members == <<"n1", "n2">>

\* A client request of a network run: the values it carries are recorded.
NetAdmit(S) == /\ nreq < MaxReq
               /\ nreq' = nreq + 1
               /\ carried' = carried \cup S
               /\ UNCHANGED <<net, failed>>

NetClientInit ==
    \E n \in Procs : NetAdmit({}) /\ ProcessInit(n, Client, TRUE, Members)
\* Every process is Ready and has every process registered.
NetworkUp ==
    \A n \in Procs : db[n] /\ Procs \subseteq DOMAIN addressbook[n]
\* The clients of NetSpec broadcast once the network is up.
NetClientBroadcast ==
    \E n \in Procs, message \in Values :
        NetworkUp /\ NetAdmit({message}) /\ ProcessBroadcast(n, Client, message)
\* A read_ok reaches a process of the network.
NetClientReadOk ==
    \E n \in Procs, messages \in ReadOkInputs :
        NetworkUp /\ NetAdmit(Range(messages)) /\ ProcessReadOk(n, Client, messages)

\* The transport delivers a forwarded broadcast to the process it is addressed to.
Delivery(m) ==
    /\ net[m] > 0
    /\ m.dst \in Procs
    /\ net' = [net EXCEPT ![m] = @ - 1]
    /\ UNCHANGED <<nreq, carried, failed>>
    /\ ProcessBroadcast(m.dst, m.src, m.message)
Deliver == \E m \in Msgs : Delivery(m)

\* The transport drops a forwarded broadcast; it is never delivered later.
Drop ==
    \E m \in Msgs :
        /\ net[m] > 0
        /\ net' = [net EXCEPT ![m] = @ - 1]
        /\ UNCHANGED <<nodeId, db, file, addressbook, tasks, last, nreq, acked,
                       backfilled, inserted, announced, carried, failed>>

\* The steps of a network run; an error of a store operation is recorded.
Recorded == /\ failed' = (failed \/ (last' # last /\ last'.err = StorageError))
            /\ UNCHANGED carried
NetInitDb == \E i \in Slots, ok \in BOOLEAN : InitDb(i, ok) /\ Recorded
NetBroadcastInsert == \E i \in Slots, ok \in BOOLEAN : BroadcastInsert(i, ok) /\ Recorded
NetBroadcastFanout == \E i \in Slots : BroadcastFanout(i) /\ Recorded
NetReadOkInsert == \E i \in Slots, ok \in BOOLEAN : ReadOkInsert(i, ok) /\ Recorded

NetNext ==
    \/ NetClientInit
    \/ NetClientBroadcast
    \/ NetClientReadOk
    \/ NetInitDb
    \/ NetBroadcastInsert
    \/ NetBroadcastFanout
    \/ NetReadOkInsert
    \/ Deliver
    \/ Drop

NetSpec == Init /\ [][NetNext]_vars

\* The network with reliable delivery: no forward is dropped, every forward
\* handed to the transport is delivered, and every suspended handler is polled
\* again. A store operation may still fail.
ReliableNext ==
    \/ NetClientInit
    \/ NetClientBroadcast
    \/ NetInitDb
    \/ NetBroadcastInsert
    \/ NetBroadcastFanout
    \/ Deliver

NetSlotStep(i) ==
    /\ \/ \E ok \in BOOLEAN : InitDb(i, ok)
       \/ \E ok \in BOOLEAN : BroadcastInsert(i, ok)
       \/ BroadcastFanout(i)
    /\ Recorded

ReliableSpec ==
    /\ Init /\ [][ReliableNext]_vars
    /\ \A i \in Slots : WF_vars(NetSlotStep(i))
    /\ \A m \in Msgs : WF_vars(Delivery(m))

\* ------------------------------------------------------------------ properties

Stored(n) == file[n].keys
Quiescent == (\A i \in Slots : tasks[i].pc = "idle") /\ NetSize = 0
Accepted == UNION {acked[n] : n \in Procs}
Msg(n, d, v) == [src |-> n, dst |-> d, message |-> v]
Senders == Procs \cup {Client}

\* C1: in a network of Ready nodes that have each other registered, every value
\* accepted by a broadcast at some node reaches every node's store although the
\* transport may drop forwards. Stated on the runs that have come to rest (no
\* handler in flight, no forward in flight): nothing further happens there, so a
\* value missing from a store stays missing.
C1_ConvergedAtRest ==
    (Quiescent /\ NetworkUp) => \A n \in Procs : Accepted \subseteq Stored(n)

\* C2: a Ready node A whose addressbook keys are A and a set P of others, on
\* finishing a broadcast(v) whose insert committed: v is stored, one forward of v
\* went to each node of P and none to anyone else (A included), |P| in all, and
\* the requester got exactly one broadcast_ok.
C2_BroadcastFanout ==
    [][\A i \in Slots :
        (tasks[i].pc = "fanout" /\ tasks'[i].pc = "idle") =>
            LET n == tasks[i].node
                v == tasks[i].message
                P == DOMAIN addressbook[n] \ {n}
            IN n \in DOMAIN addressbook[n] =>
                /\ v \in file'[n].keys
                /\ \A d \in Ids :
                      net'[Msg(n, d, v)] - net[Msg(n, d, v)] = (IF d \in P THEN 1 ELSE 0)
                /\ \A m \in Msgs : (m.src # n \/ m.message # v) => net'[m] = net[m]
                /\ Total(last'.sent, Ids) = Cardinality(P)
                /\ last'.node = n /\ last'.src = tasks[i].src
                /\ last'.replies = 1 /\ last'.reply = "broadcast_ok"
                /\ last'.dones = 0 /\ last'.err = ""]_vars

\* A broadcast_ok after forwards to two peers, with the node itself registered.
C2_Witness ==
    /\ last.kind = "broadcast" /\ last.reply = "broadcast_ok"
    /\ last.sent = [d \in Ids |-> IF d = last.node THEN 0 ELSE 1]
    /\ DOMAIN addressbook["n1"] = Ids
    /\ last.node = "n1"

\* C3: a read or a broadcast handled while the store is not attached returns the
\* not-initialized error and changes nothing: the store stays unattached and
\* empty, the addressbook is as before, no handler is left in flight, no
\* forward is issued, and neither read_ok nor broadcast_ok is sent.
C3_NotInitialized ==
    [][\A n \in Procs, src \in Senders :
        (/\ ~db[n]
         /\ \/ ProcessRead(n, src)
            \/ \E v \in Values : ProcessBroadcast(n, src, v)) =>
            /\ last'.err = NotInitialized
            /\ last'.replies = 0 /\ last'.dones = 0 /\ last'.sent = NoneSent
            /\ last'.node = n
            /\ ~db'[n] /\ file'[n] = NoTable /\ file[n] = NoTable
            /\ addressbook' = addressbook
            /\ tasks' = tasks
            /\ acked' = acked
            /\ \A m \in Msgs : net'[m] <= net[m]]_vars

\* A broadcast refused before init at a node that already knows peers.
C3_Witness ==
    /\ last.kind = "broadcast" /\ last.err = NotInitialized
    /\ ~db[last.node]
    /\ last.node \in Procs /\ DOMAIN addressbook["n1"] # {}

\* The read transaction of slot i commits in this step.
Listed(i) == tasks[i].pc = "list" /\ tasks'[i].pc = "reply"
\* The read of slot i sends its read_ok in this step.
Replied(i) == tasks[i].pc = "reply" /\ tasks'[i].pc = "idle"
NoDuplicates(s) == \A a, b \in DOMAIN s : s[a] = s[b] => a = b

\* C4 as claimed: every value whose broadcast_ok the node has sent is in every
\* read_ok the node sends afterwards.
C4_AckedInEveryLaterReadOk ==
    [][\A i \in Slots :
        Replied(i) => acked[tasks[i].node] \subseteq Range(last'.body)]_vars

\* C4 as amended: the read_ok of a Ready node carries exactly the values stored at
\* the moment of its read transaction, none missing, none extra or repeated; so
\* every value whose broadcast_ok was sent before that transaction is in it.
C4_ReadIsSnapshot ==
    [][\A i \in Slots :
        /\ Listed(i) =>
              LET n == tasks[i].node
                  values == tasks'[i].values
              IN /\ db[n]
                 /\ Range(values) = Stored(n)
                 /\ NoDuplicates(values)
                 /\ acked[n] \subseteq Range(values)
        /\ Replied(i) =>
              /\ last'.body = tasks[i].values
              /\ last'.replies = 1 /\ last'.reply = "read_ok"
              /\ last'.node = tasks[i].node]_vars

\* A read_ok that carries the value acknowledged before it.
C4_Witness ==
    /\ last.kind = "read" /\ last.reply = "read_ok"
    /\ last.body = <<MaxVal>>
    /\ acked["n1"] = {MaxVal}

\* The value the handler of slot i is inserting.
InsertOf(i) == IF tasks[i].pc = "insert" THEN tasks[i].message ELSE Head(tasks[i].rest)
\* The write transaction of slot i commits in this step.
Committed(i) ==
    \/ tasks[i].pc = "insert" /\ tasks'[i].pc = "fanout"
    \/ /\ tasks[i].pc = "insert_each"
       /\ \/ tasks'[i].pc = "insert_each" /\ tasks'[i].rest # tasks[i].rest
          \/ tasks'[i].pc = "idle" /\ last'.err = ""

\* C5: the store is a set: list_all gives exactly the distinct values of the
\* committed inserts, each once, and the empty sequence when nothing was ever
\* inserted; an insert of a value already present commits and leaves list_all
\* as it was.
C5_SetSemantics ==
    /\ [](\A n \in Procs :
            LET all == seen_broadcast_values(file[n])
            IN /\ Range(all) = inserted[n]
               /\ Len(all) = Cardinality(inserted[n])
               /\ (~file[n].exists => all = <<>>))
    /\ [][\A i \in Slots :
            Committed(i) =>
                LET n == tasks[i].node
                    id == InsertOf(i)
                IN /\ id \in Range(seen_broadcast_values(file'[n]))
                   /\ (id \in Stored(n) =>
                        seen_broadcast_values(file'[n]) = seen_broadcast_values(file[n]))]_vars

\* Value 0 was inserted twice (by a broadcast and by a read_ok) and MaxVal once.
C5_Witness ==
    /\ acked["n1"] = {0}
    /\ backfilled["n1"] = {0, MaxVal}
    /\ seen_broadcast_values(file["n1"]) = <<0, MaxVal>>

\* C6: once a Ready node has handled read_ok{messages: M} to the end, every
\* insert committed, every read whose transaction comes later returns all of M;
\* handling read_ok sends no reply and issues no forward.
C6_Backfill ==
    /\ [](last.kind = "read_ok" =>
            last.replies = 0 /\ last.reply = "" /\ last.sent = NoneSent)
    /\ [][/\ \A i \in Slots :
                /\ Listed(i) => backfilled[tasks[i].node] \subseteq Range(tasks'[i].values)
                /\ (tasks[i].kind = "read" /\ Replied(i)) =>
                      Range(tasks[i].values) \subseteq Range(last'.body)
                /\ (tasks[i].pc = "insert_each" /\ tasks'[i] # tasks[i]) => net' = net
                /\ (tasks[i].pc = "insert_each" /\ tasks'[i].pc = "idle" /\ last'.err = "") =>
                      /\ last'.kind = "read_ok" /\ last'.dones = 1
                      /\ Range(tasks[i].messages) \subseteq backfilled'[tasks[i].node]
                      /\ Range(tasks[i].messages) \subseteq file'[tasks[i].node].keys
          /\ \A n \in Procs, src \in Senders, messages \in ReadOkInputs :
                ProcessReadOk(n, src, messages) =>
                    /\ \A m \in Msgs : net'[m] <= net[m]
                    /\ (last' # last => last'.replies = 0)]_vars

\* A read_ok that comes after a read_ok{0, MaxVal} was handled, carrying both.
C6_Witness ==
    /\ backfilled["n1"] = {0, MaxVal}
    /\ acked["n1"] = {}
    /\ last.kind = "read" /\ last.reply = "read_ok"
    /\ Range(last.body) = {0, MaxVal}

\* C7: topology merges are additive: every entry's peer set is the union of the
\* peer lists announced for it, an announced node has an entry, and no step
\* removes an entry or a peer.
C7_TopologyAdditive ==
    /\ [](\A n \in Procs :
            /\ \A p \in DOMAIN addressbook[n] : addressbook[n][p] = announced[n][p]
            /\ \A p \in Ids : announced[n][p] # {} => p \in DOMAIN addressbook[n])
    /\ [][\A n \in Procs :
            /\ \A p \in DOMAIN addressbook[n] :
                  /\ p \in DOMAIN addressbook'[n]
                  /\ addressbook[n][p] \subseteq addressbook'[n][p]
            /\ \A src \in Senders, topology \in TopologyInputs :
                  ProcessTopology(n, src, topology) =>
                      \A p \in DOMAIN topology :
                          /\ p \in DOMAIN addressbook'[n]
                          /\ addressbook'[n][p] =
                                (IF p \in DOMAIN addressbook[n] THEN addressbook[n][p] ELSE {})
                                    \cup Range(topology[p])]_vars

\* {n2} and then {n3} (or the reverse) announced for n1.
C7_Witness ==
    /\ "n1" \in DOMAIN addressbook["n1"]
    /\ addressbook["n1"]["n1"] = {"n2", "n3"}
    /\ DOMAIN addressbook["n1"] = {"n1"}

\* C8: registration through an init's member list is idempotent and
\* non-destructive: an id that has an entry keeps its peer set, an absent id
\* gets an empty one, and nothing else is touched.
C8_RegisterIdempotent ==
    [][\A n \in Procs, src \in Senders, assigned \in BOOLEAN, node_ids \in InitInputs :
        (ProcessInit(n, src, assigned, node_ids) /\ nodeId'[n] # "") =>
            /\ DOMAIN addressbook'[n] = DOMAIN addressbook[n] \cup Range(node_ids)
            /\ \A p \in DOMAIN addressbook'[n] :
                  addressbook'[n][p] =
                     (IF p \in DOMAIN addressbook[n] THEN addressbook[n][p] ELSE {})]_vars

\* An init in flight or done on a table that topology requests populated: all
\* members registered, the announced peer sets intact.
C8_Witness ==
    /\ DOMAIN addressbook["n1"] = Ids
    /\ addressbook["n1"]["n1"] = {"n2"}
    /\ addressbook["n1"]["n2"] = {"n1", "n3"}
    /\ addressbook["n1"]["n3"] = {}
    /\ last.kind = "init"

\* The addressbook of n1 is the one topology {n1: [n2], n2: [n1, n3]} builds.
ExampleTopology ==
    /\ DOMAIN addressbook["n1"] = {"n1", "n2"}
    /\ addressbook["n1"]["n1"] = {"n2"}
    /\ addressbook["n1"]["n2"] = {"n1", "n3"}

\* C9 as claimed: with the addressbook built by topology {n1: [n2], n2: [n1, n3]},
\* a broadcast at n1 is forwarded to n2 and to n3, every node id the table knows
\* as an entry or as a peer, and not to n1.
C9_FanoutToAllKnown ==
    (/\ last.kind = "broadcast" /\ last.reply = "broadcast_ok" /\ last.node = "n1"
     /\ ExampleTopology) =>
        last.sent = [d \in Ids |-> IF d = "n1" THEN 0 ELSE 1]

\* C9 as amended: the fanout targets are the node ids that have an entry in the
\* addressbook (a member of an init list or a key of a topology map), the node
\* itself left out; an id named only as a peer gets no forward. With the table
\* of topology {n1: [n2], n2: [n1, n3]} a broadcast at n1 goes to n2 alone,
\* which is n1's declared neighbour only because n2 is also a key.
C9_FanoutToEntries ==
    /\ []((/\ last.kind = "broadcast" /\ last.reply = "broadcast_ok" /\ last.node = "n1"
           /\ ExampleTopology) =>
              last.sent = [d \in Ids |-> IF d = "n2" THEN 1 ELSE 0])
    /\ [][\A i \in Slots :
            (tasks[i].pc = "fanout" /\ tasks'[i].pc = "idle") =>
                LET book == addressbook[tasks[i].node]
                    peersOnly == UNION {book[p] : p \in DOMAIN book} \ DOMAIN book
                IN /\ \A d \in peersOnly : last'.sent[d] = 0
                   /\ {d \in Ids : last'.sent[d] > 0} = DOMAIN book \ {tasks[i].node}]_vars

\* The broadcast_ok of n1 after that topology: one forward, to n2.
C9_Witness ==
    /\ last.kind = "broadcast" /\ last.reply = "broadcast_ok" /\ last.node = "n1"
    /\ ExampleTopology
    /\ last.sent["n2"] = 1 /\ last.sent["n3"] = 0

\* C10 as claimed: every handled request ends with exactly one reply or with the
\* generic completion, never both, on every path.
C10_ReplyOrDone ==
    last.kind # "" => last.replies + last.dones = 1

\* C10 as amended: under the fair scheduling of FairSpec every handler in
\* flight eventually returns, and a handler that returned did exactly one of
\* three things: sent one reply, reached the generic completion, or returned an
\* error (the not-initialized, empty-node-id and storage-error paths, where it
\* neither replies nor finalizes).
C10_Completes ==
    /\ [](last.kind # "" =>
            /\ last.replies \in {0, 1} /\ last.dones \in {0, 1}
            /\ last.replies + last.dones + (IF last.err # "" THEN 1 ELSE 0) = 1
            /\ (last.kind \in {"echo", "generate", "topology"} => last.replies = 1)
            /\ (last.kind \in {"broadcast_ok", "unrecognized"} => last.dones = 1)
            /\ (last.kind \in {"init", "read_ok"} => last.replies = 0)
            /\ (last.kind \in {"broadcast", "read"} => last.dones = 0))
    /\ \A i \in Slots : (tasks[i].pc # "idle") ~> (tasks[i].pc = "idle")

\* A handler that awaited a store operation returned a storage error.
C10_Witness ==
    /\ last.kind = "read_ok" /\ last.err = StorageError
    /\ last.replies = 0 /\ last.dones = 0
    /\ inserted["n1"] # {}

\* C11: the store is attached at most once per process. A filled cell is never
\* emptied; only an init handler fills it, and filling it writes nothing to the
\* store; an init handler that finds the cell filled (a later init, or the loser
\* of two interleaved ones) reaches done() and leaves the cell and the contents
\* of the store as they are.
C11_AttachedOnce ==
    [][\A n \in Procs :
        /\ db[n] => db'[n]
        /\ \A i \in Slots :
              (tasks[i].node = n /\ tasks[i].pc = "init_db" /\ tasks'[i].pc = "idle") =>
                  /\ file' = file
                  /\ (db[n] => db' = db /\ last'.dones = 1 /\ last'.err = "")
        /\ db'[n] # db[n] =>
              \E i \in Slots : /\ tasks[i].node = n /\ tasks[i].pc = "init_db"
                               /\ tasks'[i].pc = "idle"]_vars

\* An init has returned from done() after a broadcast was acknowledged: the
\* store it found attached still holds the value.
C11_Witness ==
    /\ last.kind = "init" /\ last.dones = 1 /\ last.node = "n1"
    /\ db["n1"] /\ acked["n1"] # {} /\ acked["n1"] \subseteq Stored("n1")

\* C12: an init handled while rt.node_id() is empty returns the empty-node-id
\* error and changes nothing: the cell stays empty, no member of node_ids is
\* registered, no handler is left suspended and the store is untouched.
C12_EmptyNodeId ==
    [][\A n \in Procs, node_ids \in InitInputs :
        (nodeId[n] = "" /\ ProcessInit(n, Client, FALSE, node_ids)) =>
            /\ last' = Err(n, "init", Client, EmptyNodeId)
            /\ ~db'[n]
            /\ addressbook' = addressbook
            /\ UNCHANGED <<nodeId, db, file, tasks>>]_vars

\* An init has failed on the empty node id; nothing is registered.
C12_Witness ==
    /\ last.kind = "init" /\ last.err = EmptyNodeId /\ last.node = "n1"
    /\ nodeId["n1"] = "" /\ ~db["n1"]
    /\ DOMAIN addressbook["n1"] = {}

\* C13: persist before forward. Every forwarded broadcast a process has handed
\* to the transport, in flight or delivered to a handler, carries a value that
\* is in the sender's store; a handler issues forwards only in a step after the
\* one in which its insert committed, so the value is stored before the first
\* forward of that handler exists.
C13_PersistBeforeForward ==
    /\ [](\A m \in Msgs : net[m] > 0 => m.message \in Stored(m.src))
    /\ [](\A i \in Slots :
            /\ (tasks[i].pc # "idle" /\ tasks[i].src \in Procs) =>
                   tasks[i].message \in Stored(tasks[i].src)
            /\ tasks[i].pc = "fanout" => tasks[i].message \in Stored(tasks[i].node))
    /\ [][\A m \in Msgs :
            net'[m] > net[m] =>
                /\ m.message \in Stored(m.src)
                /\ \E i \in Slots : /\ tasks[i].pc = "fanout" /\ tasks'[i].pc = "idle"
                                    /\ tasks[i].node = m.src
                                    /\ tasks[i].message = m.message]_vars

\* A forward of n1 was delivered to n2, whose handler has stored the value and
\* is about to forward it, while a forward is in flight.
C13_Witness ==
    /\ \E i \in Slots : /\ tasks[i].pc = "fanout" /\ tasks[i].src = "n1"
                        /\ tasks[i].node = "n2"
                        /\ tasks[i].message \in Stored("n1") \cap Stored("n2")

\* C14: a broadcast handler suspended at its insert either commits the value
\* and goes on to the forwards, or returns the storage error of the failed
\* insert: then it sends no forward and no broadcast_ok, leaves the store and
\* the addressbook as they were, and is gone (nothing retries the insert).
C14_InsertFailureAborts ==
    [][\A i \in Slots :
        tasks[i].pc = "insert" =>
            \/ tasks'[i] = tasks[i]
            \/ /\ tasks'[i].pc = "fanout"
               /\ tasks[i].message \in file'[tasks[i].node].keys
            \/ /\ tasks' = Finish(i)
               /\ last' = Err(tasks[i].node, "broadcast", tasks[i].src, StorageError)
               /\ last'.replies = 0 /\ last'.sent = NoneSent
               /\ UNCHANGED <<net, file, addressbook, acked, db>>]_vars

\* A broadcast failed at its insert on a node with a registered neighbor:
\* nothing is stored, in flight or acknowledged.
C14_Witness ==
    /\ last.kind = "broadcast" /\ last.err = StorageError /\ last.node = "n1"
    /\ "n2" \in DOMAIN addressbook["n1"]
    /\ Stored("n1") = {} /\ NetSize = 0 /\ acked["n1"] = {}

\* C15: forwarding is unconditional. A broadcast handler whose value is already
\* in the store at its insert still goes on to the forwards (it ends early only
\* on a storage error), and the forwards of a value the node has acknowledged
\* before are the ones of a first receipt: one to every registered node but
\* the node itself.
C15_ForwardsDuplicates ==
    [][\A i \in Slots :
        LET t == tasks[i]
            to == DOMAIN addressbook[t.node] \ {t.node}
        IN /\ (t.pc = "insert" /\ tasks'[i] # t /\ t.message \in Stored(t.node)) =>
                  \/ tasks'[i].pc = "fanout" /\ net' = net
                  \/ tasks'[i].pc = "idle" /\ last'.err = StorageError
           /\ (t.pc = "fanout" /\ tasks'[i].pc = "idle" /\ t.message \in acked[t.node]) =>
                  /\ {d \in Ids : last'.sent[d] = 1} = to
                  /\ \A m \in Msgs :
                        net'[m] = net[m] + (IF m.src = t.node /\ m.message = t.message
                                               /\ m.dst \in to THEN 1 ELSE 0)]_vars

\* The same value was broadcast to n1 twice and forwarded to n2 both times.
C15_Witness ==
    /\ net[Msg("n1", "n2", MaxVal)] = 2
    /\ last.kind = "broadcast" /\ last.reply = "broadcast_ok" /\ last.sent["n2"] = 1
    /\ inserted["n1"] = {MaxVal}

\* C16: the store only grows. No step removes a value or the table; a step
\* changes the store of a node only when the insert of one of the node's
\* broadcast or read_ok handlers commits, and then it adds exactly that value
\* (init, echo, generate, read, broadcast_ok, topology and unrecognized
\* requests leave the stored set as it is).
C16_StoreGrowsOnly ==
    [][\A n \in Procs :
        /\ file[n].keys \subseteq file'[n].keys
        /\ file[n].exists => file'[n].exists
        /\ file'[n] # file[n] =>
              \E i \in Slots :
                  /\ tasks[i].node = n /\ tasks[i].kind \in {"broadcast", "read_ok"}
                  /\ Committed(i)
                  /\ file'[n].keys = file[n].keys \cup {InsertOf(i)}]_vars

\* A topology request was handled after two values were stored; both are there.
C16_Witness ==
    /\ last.kind = "topology" /\ last.node = "n1"
    /\ Stored("n1") = {0, MaxVal}

\* C17 as claimed: a read_ok handled while the store is not attached fails
\* with the not-initialized error for every message list, the empty one
\* included, and inserts nothing.
C17_ReadOkNeedsStore ==
    [][\A n \in Served, messages \in ReadOkInputs :
        (~db[n] /\ ProcessReadOk(n, Client, messages)) =>
            /\ last' = Err(n, "read_ok", Client, NotInitialized)
            /\ UNCHANGED <<file, tasks, db>>]_vars

\* C17 as amended: a read_ok with at least one message handled while the store
\* is not attached fails with the not-initialized error; one with an empty list
\* never looks at the cell and reaches done(); neither inserts anything nor
\* leaves a handler suspended.
C17_ReadOkUnattached ==
    [][\A n \in Served, messages \in ReadOkInputs :
        (~db[n] /\ ProcessReadOk(n, Client, messages)) =>
            /\ last' = IF messages = <<>> THEN Done(n, "read_ok", Client)
                       ELSE Err(n, "read_ok", Client, NotInitialized)
            /\ UNCHANGED <<file, tasks, db>>]_vars

\* A read_ok has failed on the empty cell; the store has no table.
C17_Witness ==
    /\ last.kind = "read_ok" /\ last.err = NotInitialized /\ last.node = "n1"
    /\ ~db["n1"] /\ file["n1"] = NoTable

\* C18: no phantom values. In the network every value in a store, in a forward
\* in flight or in a suspended broadcast handler was carried by a broadcast of
\* a client or by a read_ok; the forwards of a handler carry the value of its
\* request, and the handler a delivery starts gets the value of the forward.
C18_NoPhantomValues ==
    /\ [](\A n \in Procs : Stored(n) \subseteq carried)
    /\ [](\A m \in Msgs : net[m] > 0 => m.message \in carried)
    /\ [](\A i \in Slots : tasks[i].kind = "broadcast" => tasks[i].message \in carried)
    /\ [][\A i \in Slots :
            /\ (tasks[i].pc = "fanout" /\ tasks'[i].pc = "idle") =>
                   \A m \in Msgs : net'[m] > net[m] => m.message = tasks[i].message
            /\ (tasks[i].pc = "idle" /\ tasks'[i].pc = "insert"
                   /\ tasks'[i].src \in Procs) =>
                   LET m == Msg(tasks'[i].src, tasks'[i].node, tasks'[i].message)
                   IN net[m] = net'[m] + 1]_vars

\* n2 has stored and acknowledged the one value a client sent to n1.
C18_Witness ==
    /\ last.node = "n2" /\ last.src = "n1" /\ last.reply = "broadcast_ok"
    /\ carried = {MaxVal} /\ Stored("n2") = {MaxVal} /\ Stored("n1") = {MaxVal}

\* C19: convergence under reliable delivery. In the reliable network, where
\* clients broadcast only once every process has completed its init with the
\* full member list, every value a process has acknowledged is eventually in
\* the store of every process, unless a store operation fails.
C19_Converges ==
    \A v \in Values :
        (v \in Accepted /\ ~failed) ~> ((\A n \in Procs : v \in Stored(n)) \/ failed)

\* No store operation has failed and both stores hold the value n1 acknowledged
\* to its client.
C19_Witness ==
    /\ ~failed /\ NetworkUp
    /\ carried = {0} /\ acked["n1"] = {0}
    /\ \A n \in Procs : Stored(n) = {0}

\* C20 as claimed: in the reliable network, once a broadcast has been
\* acknowledged there is never a state with every forward delivered, none in
\* flight and no handler suspended.
C20_NeverQuiescent ==
    Accepted # {} => ~Quiescent

\* C20 as amended: in the reliable network, as long as no store operation has
\* failed, once a broadcast has been acknowledged the network is never at rest;
\* the handler of a delivered forward that reaches its fanout sends a forward
\* back to the sender; and whenever no forward is in flight a new one is
\* eventually issued, unless a store operation fails (a failed insert ends the
\* chain: its handler returns before the forwards).
C20_ForwardStorm ==
    /\ []((Accepted # {} /\ ~failed) => ~Quiescent)
    /\ [][\A i \in Slots :
            (tasks[i].pc = "fanout" /\ tasks'[i].pc = "idle" /\ tasks[i].src \in Procs) =>
                /\ last'.sent[tasks[i].src] = 1
                /\ net'[Msg(tasks[i].node, tasks[i].src, tasks[i].message)] > 0]_vars
    /\ (Accepted # {} /\ NetSize = 0 /\ ~failed) ~> (NetSize > 0 \/ failed)

\* n1 has handled a forward of n2 and has sent the value back to n2; no store
\* operation has failed.
C20_Witness ==
    /\ ~failed
    /\ last.node = "n1" /\ last.src = "n2" /\ last.reply = "broadcast_ok"
    /\ last.sent["n2"] = 1 /\ NetSize = 1

====
